---- MODULE Spec2Model ----
(***************************************************************************)
(* Model of the Uniswap airdrop bot (src/main.rs): the AirdropState ledger *)
(* (load / save / has_received_airdrop / record_airdrop), the gas helpers, *)
(* send_airdrop and the event loop of main.  The process is sequential;    *)
(* every .await of main is one step whose outcome the environment chooses, *)
(* and the process can be killed at any step and started again.            *)
(***************************************************************************)
EXTENDS Integers, Sequences, FiniteSets, TLC

\* ---------------------------------------------------------------- bounds
NumAddrs == 2      \* distinct position owners
NumTokens == 2     \* distinct position (token) ids seen in events
MaxEvents == 3     \* events delivered by the subscription, over all runs
MaxRuns == 2       \* process starts

\* ------------------------------------------------------ program constants
AirdropTokens == 100    \* 100 tokens ...
TokenDecimals == 18     \* ... with 18 decimals: 100_000_000_000_000_000_000
PriceMarginDiv == 100   \* base_fee / 100  (1%)
LimitBufferDiv == 50    \* gas_estimate / 50 (2%)

Addrs == 1..NumAddrs
TokenIds == 1..NumTokens
BaseFees == {0, 199, 1000000000}
GasEstimates == {49, 50000}

\* U256 amount 100 * 10^18, kept as units * 10^exp10 (exceeds machine integers)
AirdropAmount == [units |-> AirdropTokens, exp10 |-> TokenDecimals]

\* ------------------------------------------------------------ conversions
RECURSIVE Digits(_)
Digits(n) == IF n < 10 THEN <<n>> ELSE Digits(n \div 10) \o <<n % 10>>

\* U256::to_string: the decimal digits of units * 10^exp10
U256ToString(x) == Digits(x.units) \o [i \in 1..x.exp10 |-> 0]

\* format!("{:?}", owner) for an Address: "0x" + hex
FormatAddress(a) == <<"0x", a>>

\* format!("{:?}", tx_hash) for an H256: "0x" + hex
FormatHash(h) == <<"0x", h>>

\* ------------------------------------------------------------ AirdropState
\* AirdropState::default(): an empty recipients map
DefaultState == << >>

AirdropRecord(address, timestamp, amount, hash) ==
    [address |-> address, timestamp |-> timestamp, amount |-> amount, tx_hash |-> hash]

\* variant: the lookup never finds the key
HasReceivedAirdrop_NeverFound(state, address) == FALSE

HasReceivedAirdrop(state, address) == address \in DOMAIN state

\* HashMap::insert: adds the key, or replaces the value of an existing key
MapInsert(state, address, record) ==
    [k \in (DOMAIN state) \cup {address} |-> IF k = address THEN record ELSE state[k]]

\* ------------------------------------------------------------- state file
AbsentFile == [kind |-> "absent", entries |-> {}, complete |-> FALSE]
UnreadableFile == [kind |-> "unreadable", entries |-> {}, complete |-> FALSE]
TextFile(entries, complete) == [kind |-> "text", entries |-> entries, complete |-> complete]
MalformedFile == TextFile({}, FALSE)

\* serde_json::to_string_pretty(self): one member per recipient, then closed
ToStringPretty(state) ==
    TextFile({[key |-> k, value |-> state[k]] : k \in DOMAIN state}, TRUE)

\* serde_json::from_str(&data).unwrap_or_default(): a text that is not a
\* complete document fails to parse and yields the default (empty) state
FromStr(text) ==
    IF text.complete
    THEN [k \in {e.key : e \in text.entries} |->
            (CHOOSE e \in text.entries : e.key = k).value]
    ELSE DefaultState

\* AirdropState::load on a readable or absent file
LoadState(f) == IF f.kind = "text" THEN FromStr(f) ELSE DefaultState

\* fs::read_to_string(path).expect(..) panics when the existing file cannot be read
LoadPanics(f) == f.kind = "unreadable"

\* fs::write creates/truncates the file and then writes the bytes: stopped
\* part-way it leaves a proper prefix of the text (possibly nothing)
PartialWrites(text) == {TextFile(S, FALSE) : S \in SUBSET text.entries}

\* ------------------------------------------------------------ gas helpers
\* variant: the 1% margin is rounded to the nearest unit instead of truncated
GasPriceOf_Rounded(fee) == fee + ((fee + 50) \div PriceMarginDiv)

GasPriceOf(base_fee) == base_fee + (base_fee \div PriceMarginDiv)
GasLimitOf(gas_estimate) == gas_estimate + (gas_estimate \div LimitBufferDiv)

\* ------------------------------------------------------------------ state
VARIABLES
    pc,          \* position of the process in main, or how it stopped
    file,        \* airdrop_state.json
    recipients,  \* airdrop_state.recipients
    loaded,      \* the addresses of the ledger load() returned in this run
    event,       \* token_id of the event being processed (0: none)
    owner,       \* address owner_of returned for the latest event (0: none)
    base_fee,    \* base fee the gas price was computed from (0: not in scope)
    gas_price,   \* local gas_price (0: not in scope)
    gas_estimate, \* raw estimate the gas limit was computed from (0: not in scope)
    gas_limit,   \* local gas_limit (0: not in scope)
    tx_hash,     \* hash send_airdrop returned for the latest event (0: none)
    evals,       \* gas price evaluations made for the latest event
    sends,       \* send_airdrop calls made for the latest event
    chain,       \* transfers for which send_airdrop returned Ok, over all runs
    runs,        \* number of process starts so far
    delivered,   \* number of events delivered so far (also the wall clock)
    last,        \* how the most recent event of this run ended
    prev         \* how the event before it ended

vars == <<pc, file, recipients, loaded, event, owner, base_fee, gas_price,
          gas_estimate, gas_limit, tx_hash, evals, sends,
          chain, runs, delivered, last, prev>>

locals == <<event, owner, base_fee, gas_price, gas_estimate, gas_limit, tx_hash,
            evals, sends>>

Stopped == {"exited_ok", "exited_err", "panicked", "killed"}
SelfTerminated == {"exited_ok", "exited_err", "panicked"}

\* the end of a loop iteration (or of the process): the event and the gas
\* parameters go out of scope; the owner and hash last printed stay until the
\* next event is taken
EndIteration ==
    /\ event' = 0
    /\ base_fee' = 0
    /\ gas_price' = 0
    /\ gas_estimate' = 0
    /\ gas_limit' = 0
    /\ UNCHANGED <<owner, tx_hash, evals, sends>>

ClearLocals ==
    /\ event' = 0
    /\ owner' = 0
    /\ base_fee' = 0
    /\ gas_price' = 0
    /\ gas_estimate' = 0
    /\ gas_limit' = 0
    /\ tx_hash' = 0
    /\ evals' = 0
    /\ sends' = 0

Init ==
    /\ pc = "boot"
    /\ file \in {AbsentFile, UnreadableFile, MalformedFile}
    /\ recipients = DefaultState
    /\ loaded = {}
    /\ event = 0
    /\ owner = 0
    /\ base_fee = 0
    /\ gas_price = 0
    /\ gas_estimate = 0
    /\ gas_limit = 0
    /\ evals = 0
    /\ sends = 0
    /\ tx_hash = 0
    /\ chain = {}
    /\ runs = 1
    /\ delivered = 0
    /\ last = "none"
    /\ prev = "none"

\* ---------------------------------------------------------------- startup
\* main: let mut airdrop_state = AirdropState::load();
Load ==
    /\ pc = "boot"
    /\ IF LoadPanics(file)
       THEN /\ pc' = "panicked"
            /\ last' = "load_panic"
            /\ UNCHANGED <<recipients, loaded>>
       ELSE /\ pc' = "setup"
            /\ recipients' = LoadState(file)
            /\ loaded' = DOMAIN recipients'
            /\ UNCHANGED last
    /\ UNCHANGED <<file, locals, chain, runs, delivered, prev>>

\* main: environment, connection, wallet, contracts and subscription all succeed
SetupOk ==
    /\ pc = "setup"
    /\ pc' = "wait"
    /\ UNCHANGED <<loaded, file, recipients, locals, chain, runs, delivered, last, prev>>

\* main: a missing variable panics (expect), a failed connect/parse/subscribe returns Err
SetupFail ==
    /\ pc = "setup"
    /\ pc' \in {"panicked", "exited_err"}
    /\ last' = "startup_failed"
    /\ UNCHANGED <<loaded, file, recipients, locals, chain, runs, delivered, prev>>

\* ------------------------------------------------------------- event loop
\* while let Some(Ok(event)) = stream.next().await  -- an event is delivered
StreamNextEvent ==
    /\ pc = "wait"
    /\ delivered < MaxEvents
    /\ \E t \in TokenIds : event' = t
    /\ owner' = 0
    /\ base_fee' = 0
    /\ gas_price' = 0
    /\ gas_estimate' = 0
    /\ gas_limit' = 0
    /\ tx_hash' = 0
    /\ evals' = 0
    /\ sends' = 0
    /\ delivered' = delivered + 1
    /\ prev' = last
    /\ last' = "pending"
    /\ pc' = "owner"
    /\ UNCHANGED <<loaded, file, recipients, chain, runs>>

\* the stream yields Some(Err(_)) or None: the pattern fails, the loop ends, main returns Ok(())
StreamNextEnd ==
    /\ pc = "wait"
    /\ pc' = "exited_ok"
    /\ prev' = last
    /\ last' = "stream_end"
    /\ UNCHANGED <<loaded, file, recipients, locals, chain, runs, delivered>>

\* variant: no dedup check, every resolved owner goes on to the send
OwnerOfOk_NoDedup ==
    /\ pc = "owner"
    /\ \E a \in Addrs : owner' = a
    /\ pc' = "gasprice"
    /\ UNCHANGED <<loaded, file, recipients, event, base_fee, gas_price, gas_estimate,
                   gas_limit, tx_hash, evals, sends,
                   chain, runs, delivered, last, prev>>

\* owner_of(..) returned Ok(owner): the dedup check, then skip (continue) or go on
OwnerOfOk ==
    /\ pc = "owner"
    /\ \E a \in Addrs :
        /\ owner' = a
        /\ IF HasReceivedAirdrop(recipients, FormatAddress(a))
           THEN /\ pc' = "wait"
                /\ last' = "skipped"
                /\ event' = 0
           ELSE /\ pc' = "gasprice"
                /\ UNCHANGED <<last, event>>
    /\ UNCHANGED <<loaded, file, recipients, base_fee, gas_price, gas_estimate,
                   gas_limit, tx_hash, evals, sends,
                   chain, runs, delivered, prev>>

\* owner_of(..) returned Err(e): printed, the iteration ends
OwnerOfErr ==
    /\ pc = "owner"
    /\ pc' = "wait"
    /\ EndIteration
    /\ last' = "resolve_failed"
    /\ UNCHANGED <<loaded, file, recipients, chain, runs, delivered, prev>>

\* get_minimum_gas_price(&provider).await? returned Ok(gas_price)
GetMinimumGasPriceOk ==
    /\ pc = "gasprice"
    /\ \E b \in BaseFees :
        /\ base_fee' = b
        /\ gas_price' = GasPriceOf(b)
    /\ evals' = evals + 1
    /\ pc' = "gasest"
    /\ UNCHANGED <<loaded, file, recipients, event, owner, gas_estimate, gas_limit,
                   tx_hash, sends,
                   chain, runs, delivered, last, prev>>

\* get_block failed (`?` returns the error from main) or returned None (unwrap panics)
GetMinimumGasPriceErr ==
    /\ pc = "gasprice"
    /\ pc' \in {"exited_err", "panicked"}
    /\ last' = "gas_failed"
    /\ EndIteration
    /\ UNCHANGED <<loaded, file, recipients, chain, runs, delivered, prev>>

\* estimate_minimum_gas(..).await? returned Ok(gas_limit); send_airdrop is called
EstimateMinimumGasOk ==
    /\ pc = "gasest"
    /\ \E g \in GasEstimates :
        /\ gas_estimate' = g
        /\ gas_limit' = GasLimitOf(g)
    /\ sends' = sends + 1
    /\ pc' = "send"
    /\ UNCHANGED <<loaded, file, recipients, event, owner, base_fee, gas_price,
                   tx_hash, evals,
                   chain, runs, delivered, last, prev>>

\* estimate_gas failed: `?` returns the error from main
EstimateMinimumGasErr ==
    /\ pc = "gasest"
    /\ pc' = "exited_err"
    /\ last' = "gas_failed"
    /\ EndIteration
    /\ UNCHANGED <<loaded, file, recipients, chain, runs, delivered, prev>>

\* variant: the amount is sized from the event payload
TransferAmount_FromPayload(ev) == [units |-> AirdropTokens * ev, exp10 |-> TokenDecimals]

\* main: let amount = U256::from(100_000_000_000_000_000_000u128), whatever the event
TransferAmount(ev) == AirdropAmount

\* send_airdrop: the node accepted the transaction and returned its hash
SendAirdropOk ==
    /\ pc = "send"
    /\ tx_hash' = Cardinality(chain) + 1
    /\ chain' = chain \cup {[recipient |-> owner, amount |-> TransferAmount(event),
                             tx_hash |-> tx_hash', run |-> runs]}
    /\ pc' = "record"
    /\ UNCHANGED <<loaded, file, recipients, event, owner, base_fee, gas_price,
                   gas_estimate, gas_limit, evals, sends, runs, delivered, last, prev>>

\* variant: the send error is propagated with `?` like the gas errors
SendAirdropErr_Propagates ==
    /\ pc = "send"
    /\ pc' = "exited_err"
    /\ last' = "send_failed"
    /\ EndIteration
    /\ UNCHANGED <<loaded, file, recipients, chain, runs, delivered, prev>>

\* variant: the recipient is recorded although the send failed
SendAirdropErr_Records ==
    /\ pc = "send"
    /\ pc' = "wait"
    /\ EndIteration
    /\ last' = "send_failed"
    /\ recipients' = MapInsert(recipients, FormatAddress(owner),
                               AirdropRecord(FormatAddress(owner), delivered,
                                             U256ToString(AirdropAmount), FormatHash(0)))
    /\ file' = ToStringPretty(recipients')
    /\ UNCHANGED <<loaded, chain, runs, delivered, prev>>

\* variant: a failed send is submitted again for the same event
SendAirdropErr_Retries ==
    /\ pc = "send"
    /\ sends < 3
    /\ sends' = sends + 1
    /\ pc' = "send"
    /\ UNCHANGED <<loaded, file, recipients, event, owner, base_fee, gas_price,
                   gas_estimate, gas_limit, tx_hash, evals, chain, runs,
                   delivered, last, prev>>

\* send_airdrop returned Err(e): printed, the iteration ends
SendAirdropErr ==
    /\ pc = "send"
    /\ pc' = "wait"
    /\ EndIteration
    /\ last' = "send_failed"
    /\ UNCHANGED <<loaded, file, recipients, chain, runs, delivered, prev>>

\* record_airdrop up to the insert: the record built from the arguments and Utc::now()
Recorded(state, address, amount, hash, now) ==
    MapInsert(state, address, AirdropRecord(address, now, amount, hash))

\* the ledger main passes to save() after a successful send
RecordedNow ==
    Recorded(recipients, FormatAddress(owner), U256ToString(TransferAmount(event)),
             FormatHash(tx_hash), delivered)

\* variant: save() writes the members in append style, only the newest record
SavedFile_NewestOnly(state) ==
    TextFile({[key |-> k, value |-> state[k]] :
                k \in {j \in DOMAIN state :
                         \A i \in DOMAIN state : state[i].timestamp <= state[j].timestamp}},
             TRUE)

\* what save() leaves in the file when it returns Ok
SavedFile(state) == ToStringPretty(state)

\* variant: save() keeps what the file held and appends the new member
RecordAirdropSaved_Append ==
    /\ pc = "record"
    /\ recipients' = RecordedNow
    /\ file' = TextFile(file.entries \cup
                        {[key |-> FormatAddress(owner),
                          value |-> recipients'[FormatAddress(owner)]]}, TRUE)
    /\ pc' = "wait"
    /\ EndIteration
    /\ last' = "recorded"
    /\ UNCHANGED <<loaded, chain, runs, delivered, prev>>

\* record_airdrop, save() returned Ok
RecordAirdropSaved ==
    /\ pc = "record"
    /\ recipients' = RecordedNow
    /\ file' = SavedFile(recipients')
    /\ pc' = "wait"
    /\ EndIteration
    /\ last' = "recorded"
    /\ UNCHANGED <<loaded, chain, runs, delivered, prev>>

\* variant: a failed save() undoes the insert
RecordAirdropSaveFailed_Rollback ==
    /\ pc = "record"
    /\ file' \in {file} \cup PartialWrites(ToStringPretty(RecordedNow))
    /\ pc' = "wait"
    /\ EndIteration
    /\ last' = "record_unsaved"
    /\ UNCHANGED <<recipients, loaded, chain, runs, delivered, prev>>

\* record_airdrop, save() returned Err: the file could not be created (left as
\* it was) or the write stopped part-way; the error is printed only
RecordAirdropSaveFailed ==
    /\ pc = "record"
    /\ recipients' = RecordedNow
    /\ file' \in {file} \cup PartialWrites(ToStringPretty(recipients'))
    /\ pc' = "wait"
    /\ EndIteration
    /\ last' = "record_unsaved"
    /\ UNCHANGED <<loaded, chain, runs, delivered, prev>>

\* ------------------------------------------------------------ environment
\* the process is killed while fs::write is under way
CrashInSave ==
    /\ pc = "record"
    /\ recipients' = RecordedNow
    /\ file' \in PartialWrites(ToStringPretty(recipients'))
    /\ pc' = "killed"
    /\ EndIteration
    /\ UNCHANGED <<loaded, chain, runs, delivered, last, prev>>

\* the process is killed at any other point
Kill ==
    /\ pc \notin Stopped
    /\ pc' = "killed"
    /\ EndIteration
    /\ UNCHANGED <<loaded, file, recipients, chain, runs, delivered, last, prev>>

\* the program is started again: a fresh process, the same airdrop_state.json
Restart ==
    /\ pc \in Stopped
    /\ runs < MaxRuns
    /\ runs' = runs + 1
    /\ pc' = "boot"
    /\ recipients' = DefaultState
    /\ loaded' = {}
    /\ ClearLocals
    /\ last' = "none"
    /\ prev' = "none"
    /\ UNCHANGED <<file, chain, delivered>>

Next ==
    \/ Load
    \/ SetupOk
    \/ SetupFail
    \/ StreamNextEvent
    \/ StreamNextEnd
    \/ OwnerOfOk
    \/ OwnerOfErr
    \/ GetMinimumGasPriceOk
    \/ GetMinimumGasPriceErr
    \/ EstimateMinimumGasOk
    \/ EstimateMinimumGasErr
    \/ SendAirdropOk
    \/ SendAirdropErr
    \/ RecordAirdropSaved
    \/ RecordAirdropSaveFailed
    \/ CrashInSave
    \/ Kill
    \/ Restart

Spec == Init /\ [][Next]_vars

\* ------------------------------------------------------------ observations
TransfersTo(a) == {t \in chain : t.recipient = a}
TransfersInRun(a, r) == {t \in chain : t.recipient = a /\ t.run = r}

\* a transfer to a was accepted in this run before the event now in hand
PaidEarlierInRun(a) ==
    \E t \in chain : t.recipient = a /\ t.run = runs /\ t.tx_hash # tx_hash

PerEventFailures == {"resolve_failed", "send_failed", "record_unsaved"}
StartupFailures == {"load_panic", "startup_failed"}

\* ----------------------------------------------------------------- claims

\* C1 (as stated): over all events, send and persist outcomes, kills and
\* restarts, no recipient has more than one transfer accepted.
C1_AtMostOneTransferEver ==
    \A a \in Addrs : Cardinality(TransfersTo(a)) <= 1

\* C1 (amended): within one process run no recipient has more than one
\* transfer accepted, and a run accepts no transfer for a recipient that was in
\* the ledger load() returned at its start.
C1_AtMostOneTransferPerRun ==
    \A a \in Addrs :
        /\ \A r \in 1..MaxRuns : Cardinality(TransfersInRun(a, r)) <= 1
        /\ FormatAddress(a) \in loaded => TransfersInRun(a, runs) = {}

\* a later run loaded a paid recipient from the file and skipped its event
C1_Witness ==
    /\ runs >= 2
    /\ last = "skipped"
    /\ FormatAddress(owner) \in loaded
    /\ TransfersTo(owner) # {}
    /\ TransfersInRun(owner, runs) = {}

\* C2: within a run, once a send to A succeeded, an event that resolves to A
\* never reaches the gas queries or the send and gets no transaction, also
\* when the save() of A's record failed.
C2_PaidRecipientSkipped ==
    (owner # 0 /\ PaidEarlierInRun(owner)) =>
        /\ tx_hash = 0
        /\ pc \notin {"gasprice", "gasest", "send", "record"}

\* the previous event's save() failed, the recipient is not in the file, and
\* the next event for that recipient was skipped
C2_Witness ==
    /\ prev = "record_unsaved"
    /\ last = "skipped"
    /\ PaidEarlierInRun(owner)
    /\ ~HasReceivedAirdrop(LoadState(file), FormatAddress(owner))
    /\ pc = "wait"

\* C3: within a process run the in-memory ledger is append-only: every entry
\* stays, with its amount, tx_hash and timestamp unchanged, at every step.
C3_LedgerAppendOnly ==
    [][pc' # "boot" =>
        \A k \in DOMAIN recipients :
            /\ k \in DOMAIN recipients'
            /\ recipients'[k] = recipients[k]]_vars

\* two recipients were recorded one after the other
C3_Witness ==
    /\ prev \in {"recorded", "record_unsaved"}
    /\ last \in {"recorded", "record_unsaved"}
    /\ Cardinality(DOMAIN recipients) = 2

\* C4 (as stated): a kill during the save() of a record leaves a file from
\* which load() yields the ledger before that record or the ledger with it.
C4_SaveAllOrNothing ==
    [][(pc = "record" /\ pc' = "killed") =>
        LoadState(file') \in {LoadState(file), recipients, RecordedNow}]_vars

\* C5 (as stated): a failed base-fee or gas-estimate query ends the event only:
\* nothing is sent and the loop waits for the next event.
C5_GasFailureContained ==
    last = "gas_failed" => (pc \in {"wait", "killed"} /\ tx_hash = 0)

\* C6: after a failed owner_of, a failed send_airdrop or a failed save() the
\* process is back at stream.next(), unless it was killed.
C6_PerEventFailureContinues ==
    last \in PerEventFailures => pc \in {"wait", "killed"}

\* an event was processed to its record after the previous one failed
C6_Witness ==
    /\ prev \in PerEventFailures
    /\ last = "recorded"
    /\ pc = "wait"

\* C7 (as stated): once the subscription is established the process does not
\* terminate on its own; only a startup failure ends it without a kill.
C7_NeverTerminatesOnItsOwn ==
    pc \in SelfTerminated => last \in StartupFailures

\* C8 (as stated): load() on an absent, unreadable or malformed file returns
\* the empty ledger and startup goes on.
C8_LoadNeverAborts ==
    [][(pc = "boot" /\ pc' \notin {"boot", "killed"}
            /\ (file.kind # "text" \/ ~file.complete)) =>
        (pc' = "setup" /\ recipients' = DefaultState)]_vars

\* C9: a record whose save() succeeded is read back by load(): the recipient is
\* present with the recorded amount and tx reference, every recipient the file
\* held before is still there, and a starting process gets exactly the file's
\* members.
C9_RoundTrip ==
    [][/\ (pc = "record" /\ last' = "recorded") =>
            LET l == LoadState(file')
                k == FormatAddress(owner)
            IN  /\ ~LoadPanics(file')
                /\ HasReceivedAirdrop(l, k)
                /\ l[k].amount = U256ToString(AirdropAmount)
                /\ l[k].tx_hash = FormatHash(tx_hash)
                /\ \A q \in DOMAIN LoadState(file) :
                        q \in DOMAIN l /\ l[q] = LoadState(file)[q]
       /\ (pc = "boot" /\ pc' = "setup" /\ file.kind = "text" /\ file.complete) =>
            /\ DOMAIN recipients' = {e.key : e \in file.entries}
            /\ \A e \in file.entries : recipients'[e.key] = e.value]_vars

\* a fresh process loaded two recipients recorded by an earlier run
C9_Witness ==
    /\ pc = "setup"
    /\ runs >= 2
    /\ Cardinality(DOMAIN recipients) = 2
    /\ \A a \in {1, 2} :
        \E t \in chain :
            /\ t.run < runs
            /\ t.recipient = a
            /\ recipients[FormatAddress(a)].tx_hash = FormatHash(t.tx_hash)
            /\ recipients[FormatAddress(a)].amount = U256ToString(t.amount)

\* C10: the ledger in memory and the state file change only in the record that
\* follows a successful send (and at process start); an event that ends in a
\* resolution failure, a skip or a send error leaves both as they were, and
\* the recipient of a failed send is still not in the ledger.
C10_LedgerChangedOnlyBySuccessfulSend ==
    [][/\ (recipients' # recipients \/ file' # file) =>
            (pc = "record" \/ pc = "boot" \/ pc' = "boot")
       /\ (last' \in {"resolve_failed", "skipped", "send_failed"} /\ last' # last) =>
            UNCHANGED <<recipients, file>>
       /\ (last' = "send_failed" /\ last' # last) =>
            ~HasReceivedAirdrop(recipients', FormatAddress(owner'))]_vars

\* a send failed with a non-empty ledger on disk; the recipient stays eligible
C10_Witness ==
    /\ last = "send_failed"
    /\ pc = "wait"
    /\ DOMAIN recipients # {}
    /\ file = ToStringPretty(recipients)
    /\ ~HasReceivedAirdrop(recipients, FormatAddress(owner))

\* C11: an event that resolves to a recipient already in the ledger goes
\* straight back to stream.next(): no gas query is made and no transfer is
\* submitted for it.
C11_AlreadyPaidNoChainWrite ==
    [][(pc = "owner" /\ owner' # 0 /\ FormatAddress(owner') \in DOMAIN recipients) =>
        /\ pc' = "wait"
        /\ last' = "skipped"
        /\ chain' = chain
        /\ gas_price' = 0
        /\ gas_limit' = 0
        /\ tx_hash' = 0]_vars

\* right after a recorded payment, the next event resolved to a recipient in
\* the ledger and was skipped with the chain as it was
C11_Witness ==
    /\ prev = "recorded"
    /\ last = "skipped"
    /\ pc = "wait"
    /\ FormatAddress(owner) \in DOMAIN recipients
    /\ Cardinality(chain) = 1

\* C13: has_received_airdrop is true only for a recipient that was in the
\* ledger loaded at startup or was sent a transfer earlier in this run, every
\* entry carries the hash of a transfer that was accepted for its recipient,
\* and after load() of an absent file the ledger is empty.
C13_NoFalsePositives ==
    /\ \A k \in DOMAIN recipients :
        /\ k \in loaded \/ \E t \in chain : t.run = runs /\ FormatAddress(t.recipient) = k
        /\ \E t \in chain : /\ FormatAddress(t.recipient) = k
                            /\ FormatHash(t.tx_hash) = recipients[k].tx_hash
    /\ (pc = "setup" /\ file.kind = "absent") => DOMAIN recipients = {}

\* a ledger with one recipient loaded at startup and one paid in this run,
\* while the other addresses are not reported as paid
C13_Witness ==
    /\ runs = 2
    /\ Cardinality(loaded) = 1
    /\ Cardinality(DOMAIN recipients) = 2
    /\ last = "recorded"

\* C16: a transfer to A is submitted only from the send step of an event whose
\* owner resolution returned A with A not in the ledger; a record is written
\* only after that event's send returned its hash; and the next event is
\* taken only when the previous one has ended.
C16_EventStepOrder ==
    [][/\ chain' # chain =>
            /\ pc = "send"
            /\ owner # 0
            /\ FormatAddress(owner) \notin DOMAIN recipients
            /\ \A t \in chain' \ chain : t.recipient = owner /\ t.run = runs
       /\ (recipients' # recipients /\ pc # "boot" /\ pc' # "boot") =>
            /\ pc = "record"
            /\ \E t \in chain : t.tx_hash = tx_hash /\ t.recipient = owner /\ t.run = runs
            /\ DOMAIN recipients' = DOMAIN recipients \cup {FormatAddress(owner)}
            /\ recipients'[FormatAddress(owner)].tx_hash = FormatHash(tx_hash)
       /\ delivered' # delivered =>
            /\ pc = "wait"
            /\ last # "pending"
            /\ pc' = "owner"]_vars

\* an event was skipped as already paid and the next one went through
\* resolution, gas decision, send and record
C16_Witness ==
    /\ prev = "skipped"
    /\ last = "recorded"
    /\ pc = "wait"
    /\ \E t \in chain : t.tx_hash = tx_hash /\ t.recipient = owner

\* C19: after a save() that succeeded the file is the complete document of
\* exactly the in-memory ledger; when load() returned the empty ledger, the
\* file then holds only recipients paid in the current run.
C19_SaveRewritesWholeLedger ==
    last = "recorded" =>
        /\ file.kind = "text"
        /\ file.complete
        /\ {e.key : e \in file.entries} = DOMAIN recipients
        /\ \A e \in file.entries : e.value = recipients[e.key]
        /\ loaded = {} =>
            \A e \in file.entries :
                \E t \in chain : t.run = runs /\ FormatAddress(t.recipient) = e.key

\* a second run read a malformed file as empty, and its first successful
\* record left a file without the recipient paid in the first run
C19_Witness ==
    /\ last = "recorded"
    /\ runs = 2
    /\ loaded = {}
    /\ Cardinality(file.entries) = 1
    /\ \E t \in chain : t.run = 1 /\ FormatAddress(t.recipient) \notin DOMAIN recipients

\* C14: the gas price is the base fee plus floor(base fee / 100) and the gas
\* limit is the raw estimate plus floor(estimate / 50), in integers: base fee
\* 1,000,000,000 gives 1,010,000,000, estimate 50,000 gives 51,000, and
\* neither result is below its input.
C14_GasArithmetic ==
    /\ pc \in {"gasest", "send", "record"} =>
        LET q == gas_price - base_fee
        IN  /\ q >= 0
            /\ 100 * q <= base_fee
            /\ base_fee < 100 * (q + 1)
            /\ base_fee = 1000000000 => gas_price = 1010000000
    /\ pc \in {"send", "record"} =>
        LET q == gas_limit - gas_estimate
        IN  /\ q >= 0
            /\ 50 * q <= gas_estimate
            /\ gas_estimate < 50 * (q + 1)
            /\ gas_estimate = 50000 => gas_limit = 51000

\* the send is about to go out with the parameters computed from base fee
\* 1,000,000,000 and estimate 50,000
C14_Witness ==
    /\ pc = "send"
    /\ base_fee = 1000000000
    /\ gas_price = 1010000000
    /\ gas_estimate = 50000
    /\ gas_limit = 51000

\* C15: send_airdrop is called at most once for an event; when it returned an
\* error the event has ended with that single call and the error printed, and
\* the process is back at stream.next().
C15_AtMostOneSendPerEvent ==
    /\ sends <= 1
    /\ last = "send_failed" => (sends = 1 /\ pc \in {"wait", "killed"} /\ tx_hash = 0)

\* a send failed and the loop has moved on to the next event
C15_Witness ==
    /\ prev = "send_failed"
    /\ last = "pending"
    /\ pc = "owner"
    /\ sends = 0
    /\ chain = {}

\* 100 * 10^18 written out: the digit 1 followed by 20 zeros
HundredTokensString == <<1>> \o [i \in 1..20 |-> 0]

\* C17: every submitted transfer carries the amount 100 * 10^18 and every
\* ledger entry the decimal string of that amount, whatever the token id of
\* the event that led to it.
C17_FixedRewardAmount ==
    /\ \A t \in chain : t.amount = [units |-> 100, exp10 |-> 18]
    /\ \A k \in DOMAIN recipients : recipients[k].amount = HundredTokensString

\* the transfer for an event with token id 2 was accepted after an earlier,
\* recorded transfer to another recipient
C17_Witness ==
    /\ pc = "record"
    /\ event = 2
    /\ Cardinality(chain) = 2
    /\ Cardinality(DOMAIN recipients) = 1
    /\ \E t \in chain : t.tx_hash = tx_hash /\ t.recipient = owner

\* ------------------------------------------------- the ledger on its own
\* An AirdropState used directly: load(), then record_airdrop called with any
\* address and any transaction hash, as a caller other than main's loop may do.
InitLedger ==
    /\ pc = "api"
    /\ file \in {AbsentFile, MalformedFile}
    /\ recipients = LoadState(file)
    /\ loaded = DOMAIN recipients
    /\ event = 0
    /\ owner = 0
    /\ base_fee = 0
    /\ gas_price = 0
    /\ gas_estimate = 0
    /\ gas_limit = 0
    /\ tx_hash = 0
    /\ evals = 0
    /\ sends = 0
    /\ chain = {}
    /\ runs = 1
    /\ delivered = 0
    /\ last = "none"
    /\ prev = "none"

\* record_airdrop(address, amount, tx_hash) with the arguments a, 100 tokens, h
LedgerRecordCall(a, h) ==
    /\ pc = "api"
    /\ delivered < MaxEvents
    /\ delivered' = delivered + 1
    /\ owner' = a
    /\ tx_hash' = h
    /\ recipients' = Recorded(recipients, FormatAddress(a), U256ToString(AirdropAmount),
                              FormatHash(h), delivered')
    /\ UNCHANGED <<pc, loaded, event, base_fee, gas_price, gas_estimate, gas_limit,
                   evals, sends, chain, runs>>

\* record_airdrop returns after save() returned Ok
LedgerRecordSaved ==
    /\ \E a \in Addrs, h \in 1..MaxEvents : LedgerRecordCall(a, h)
    /\ file' = SavedFile(recipients')
    /\ prev' = last
    /\ last' = "recorded"

\* record_airdrop returns after save() returned Err, which it only prints
LedgerRecordSaveFailed ==
    /\ \E a \in Addrs, h \in 1..MaxEvents : LedgerRecordCall(a, h)
    /\ file' \in {file} \cup PartialWrites(ToStringPretty(recipients'))
    /\ prev' = last
    /\ last' = "record_unsaved"

\* a fresh instance is loaded from the file
LedgerLoad ==
    /\ pc = "api"
    /\ runs < MaxRuns
    /\ runs' = runs + 1
    /\ recipients' = LoadState(file)
    /\ loaded' = DOMAIN recipients'
    /\ owner' = 0
    /\ tx_hash' = 0
    /\ last' = "none"
    /\ prev' = "none"
    /\ UNCHANGED <<pc, file, event, base_fee, gas_price, gas_estimate, gas_limit,
                   evals, sends, chain, delivered>>

NextLedger ==
    \/ LedgerRecordSaved
    \/ LedgerRecordSaveFailed
    \/ LedgerLoad

SpecLedger == InitLedger /\ [][NextLedger]_vars

\* C12 (as stated): a record_airdrop call for a recipient that already has an
\* entry is rejected: the entry keeps its amount, tx reference and timestamp.
C12_SecondRecordRejected ==
    [][(pc = "api" /\ delivered' # delivered) =>
        \A k \in DOMAIN recipients :
            /\ k \in DOMAIN recipients'
            /\ recipients'[k].amount = recipients[k].amount
            /\ recipients'[k].tx_hash = recipients[k].tx_hash
            /\ recipients'[k].timestamp = recipients[k].timestamp]_vars

\* ------------------------------------------- the gated-retry revision
\* The revision of the loop whose gas policy is Gated-retry: the market gas
\* price is read, the send goes out when the price is at or below the ceiling,
\* otherwise the loop sleeps and reads again, up to the attempt bound; after
\* the last deferral the event is abandoned.  The rest of the loop is main's.
AttemptBound == 10
PriceCeiling == 100
FixedGasLimit == 500000
MarketPrices == {PriceCeiling, PriceCeiling + 1}

\* decide(): Proceed when price <= ceiling (inclusive), Defer otherwise
GatedDecide(price, ceiling) == IF price <= ceiling THEN "Proceed" ELSE "Defer"

InitGated ==
    /\ pc = "wait"
    /\ file = AbsentFile
    /\ recipients = DefaultState
    /\ loaded = {}
    /\ event = 0
    /\ owner = 0
    /\ base_fee = 0
    /\ gas_price = 0
    /\ gas_estimate = 0
    /\ gas_limit = 0
    /\ tx_hash = 0
    /\ evals = 0
    /\ sends = 0
    /\ chain = {}
    /\ runs = 1
    /\ delivered = 0
    /\ last = "none"
    /\ prev = "none"

\* an evaluation returned Proceed: the send is called with that price and the fixed limit
GatedProceed ==
    /\ pc = "gasprice"
    /\ evals < AttemptBound
    /\ \E p \in MarketPrices :
        /\ GatedDecide(p, PriceCeiling) = "Proceed"
        /\ gas_price' = p
    /\ gas_limit' = FixedGasLimit
    /\ evals' = evals + 1
    /\ sends' = sends + 1
    /\ pc' = "send"
    /\ UNCHANGED <<loaded, file, recipients, event, owner, base_fee, gas_estimate,
                   tx_hash, chain, runs, delivered, last, prev>>

\* an evaluation returned Defer: sleep for the interval, then evaluate again
GatedDefer ==
    /\ pc = "gasprice"
    /\ evals < AttemptBound
    /\ \E p \in MarketPrices : GatedDecide(p, PriceCeiling) = "Defer"
    /\ evals' = evals + 1
    /\ UNCHANGED <<pc, loaded, file, recipients, event, owner, base_fee, gas_price,
                   gas_estimate, gas_limit, tx_hash, sends, chain, runs,
                   delivered, last, prev>>

\* variant: the loop gives up one evaluation early
GatedAbandon_Early ==
    /\ pc = "gasprice"
    /\ evals = AttemptBound - 1
    /\ pc' = "wait"
    /\ EndIteration
    /\ last' = "abandoned"
    /\ UNCHANGED <<loaded, file, recipients, chain, runs, delivered, prev>>

\* the attempt bound is reached with every evaluation deferred: the event is abandoned
GatedAbandon ==
    /\ pc = "gasprice"
    /\ evals = AttemptBound
    /\ pc' = "wait"
    /\ EndIteration
    /\ last' = "abandoned"
    /\ UNCHANGED <<loaded, file, recipients, chain, runs, delivered, prev>>

NextGated ==
    \/ StreamNextEvent
    \/ StreamNextEnd
    \/ OwnerOfOk
    \/ OwnerOfErr
    \/ GatedProceed
    \/ GatedDefer
    \/ GatedAbandon
    \/ SendAirdropOk
    \/ SendAirdropErr
    \/ RecordAirdropSaved
    \/ RecordAirdropSaveFailed

SpecGated == InitGated /\ [][NextGated]_vars

\* C18: with the attempt bound 10, an event is abandoned only after exactly 10
\* price evaluations, none of which led to a send; nothing was submitted or
\* recorded for its recipient, the evaluations never exceed 10, and the process
\* is back at stream.next().
C18_GatedRetryExhaustion ==
    /\ evals <= 10
    /\ (pc = "gasprice" /\ evals > 0) => (sends = 0 /\ gas_price = 0)
    /\ last = "abandoned" =>
        /\ evals = 10
        /\ sends = 0
        /\ tx_hash = 0
        /\ pc = "wait"
        /\ FormatAddress(owner) \notin DOMAIN recipients
        /\ \A t \in chain : FormatHash(t.tx_hash) \in
                {recipients[k].tx_hash : k \in DOMAIN recipients}

\* an event was abandoned after the bound and the next event has been taken
C18_Witness ==
    /\ prev = "abandoned"
    /\ last = "pending"
    /\ pc = "owner"
    /\ delivered = 2
    /\ chain = {}

====
